---- MODULE Spec2Model ----
(***************************************************************************)
(* Model of the SEO update pipeline of woo-helpers (package wooh):          *)
(* UpdateSEO (src/src/wooh.go:256-400) with the generator OpenAIProcess     *)
(* (wooh.go:141-233) and the tracker TrackerLoad / TrackerUpdate.save       *)
(* (src/unnamed/part_001:32-58).                                            *)
(*                                                                         *)
(* The process is sequential.  One action is one step of UpdateSEO between  *)
(* two blocking calls (generator call, stdin read, HTTP PUT, file write),   *)
(* so that the termination of the process can fall between any two of them. *)
(***************************************************************************)
EXTENDS Integers, Sequences, FiniteSets, TLC

(***************************************************************************)
(* Bounds of the model.                                                     *)
(***************************************************************************)
MaxCatalog == 2     \* longest catalog; product identifiers are 1..MaxCatalog
MaxRuns == 2        \* invocations of UpdateSEO in one behaviour

(***************************************************************************)
(* Program constants.                                                       *)
(***************************************************************************)
maxTitleLength == 60
maxDescriptionLength == 160
retries == 10

(***************************************************************************)
(* Strings.  A Go string is represented by its byte length (what len()      *)
(* returns) and a tag that tells apart different strings of one length.     *)
(* The empty string is the only string of length 0.                         *)
(***************************************************************************)
Str(n, tag) == [len |-> n, tag |-> tag]
EmptyStr == Str(0, 0)
GoLen(s) == s.len

TitlePool == {Str(maxTitleLength, 1), Str(maxTitleLength + 1, 1), Str(12, 2)}
DescPool == {Str(maxDescriptionLength, 1), Str(maxDescriptionLength + 1, 1)}

(***************************************************************************)
(* Replies of the text-generation endpoint, as OpenAIProcess sees them:     *)
(* the call fails, or it returns a list of choices whose first message is   *)
(* either not a JSON object of strings or a JSON object holding some of the *)
(* two expected keys.                                                       *)
(***************************************************************************)
Replies ==
    {[callErr |-> TRUE, choices |-> 0, isJSON |-> FALSE,
      hasTitle |-> FALSE, hasDesc |-> FALSE, title |-> EmptyStr, desc |-> EmptyStr]}
    \cup
    {[callErr |-> FALSE, choices |-> 0, isJSON |-> FALSE,
      hasTitle |-> FALSE, hasDesc |-> FALSE, title |-> EmptyStr, desc |-> EmptyStr]}
    \cup
    {[callErr |-> FALSE, choices |-> 1, isJSON |-> FALSE,
      hasTitle |-> FALSE, hasDesc |-> FALSE, title |-> EmptyStr, desc |-> EmptyStr]}
    \cup
    {[callErr |-> FALSE, choices |-> 1, isJSON |-> TRUE,
      hasTitle |-> ht, hasDesc |-> hd,
      title |-> IF ht THEN t ELSE EmptyStr, desc |-> IF hd THEN d ELSE EmptyStr] :
        ht \in BOOLEAN, hd \in BOOLEAN, t \in TitlePool, d \in DescPool}

\* wooh.go:207-232: every failure returns two empty strings and an error.
OpenAIProcess(reply) ==
    IF reply.callErr
    THEN [title |-> EmptyStr, desc |-> EmptyStr, err |-> "completion"]
    ELSE IF reply.choices = 0
    THEN [title |-> EmptyStr, desc |-> EmptyStr, err |-> "nochoices"]
    ELSE IF ~reply.isJSON
    THEN [title |-> EmptyStr, desc |-> EmptyStr, err |-> "parse"]
    ELSE IF ~reply.hasTitle
    THEN [title |-> EmptyStr, desc |-> EmptyStr, err |-> "notitle"]
    ELSE IF ~reply.hasDesc
    THEN [title |-> EmptyStr, desc |-> EmptyStr, err |-> "nodesc"]
    ELSE [title |-> reply.title, desc |-> reply.desc, err |-> "nil"]

\* Variant of WithinLimits: the limits taken as exclusive.
WithinLimits_Strict(t, d) ==
    GoLen(t) < maxTitleLength /\ GoLen(d) < maxDescriptionLength

\* wooh.go:321: the test that leaves the retry loop.
WithinLimits(t, d) ==
    GoLen(t) <= maxTitleLength /\ GoLen(d) <= maxDescriptionLength

\* Variant of ExceedsLimits: the product is skipped only when both fields
\* are too long.
ExceedsLimits_Both(t, d) ==
    GoLen(t) > maxTitleLength /\ GoLen(d) > maxDescriptionLength

\* wooh.go:328: the test after the retry loop that skips the product.
ExceedsLimits(t, d) ==
    GoLen(t) > maxTitleLength \/ GoLen(d) > maxDescriptionLength

(***************************************************************************)
(* Tracker file and tracker.                                                *)
(***************************************************************************)
FileAbsent == [st |-> "absent", ids |-> {}]
FileCorrupt == [st |-> "corrupt", ids |-> {}]
FileOf(ids) == [st |-> "ok", ids |-> ids]

IDs == 1..MaxCatalog

\* Variant of TrackerLoad: the content of the file is parsed and dropped.
TrackerLoad_Dropped(file) ==
    IF file.st = "corrupt" THEN [err |-> TRUE, ids |-> {}]
    ELSE [err |-> FALSE, ids |-> {}]

\* Variant of TrackerLoad: a file that does not parse is an empty tracker.
TrackerLoad_Lenient(file) ==
    IF file.st = "ok" THEN [err |-> FALSE, ids |-> file.ids]
    ELSE [err |-> FALSE, ids |-> {}]

\* part_001:37-50: an absent file is an empty tracker, a file that does not
\* parse is an error.
TrackerLoad(file) ==
    IF file.st = "absent" THEN [err |-> FALSE, ids |-> {}]
    ELSE IF file.st = "corrupt" THEN [err |-> TRUE, ids |-> {}]
    ELSE [err |-> FALSE, ids |-> file.ids]

\* Variant of IsTracked: the lookup never finds the key.
IsTracked_Never(t, id) == FALSE

\* wooh.go:293: tracker.UpdatedIDs[productID]
IsTracked(t, id) == id \in t

(***************************************************************************)
(* Standard input.  A line is the sequence of characters that               *)
(* reader.ReadString('\n') returns: the text up to and including the        *)
(* newline, or what is left of the input (possibly nothing) at its end.     *)
(***************************************************************************)
Whitespace == {" ", "\t", "\r", "\n"}

InputLines ==
    { <<"y", "\n">>, <<"n", "\n">>, <<" ", "y", " ", "\r", "\n">>,
      <<"\t", "n", "\n">>, <<"\n">>, <<>>,
      <<"y", "e", "s", "\n">>, <<"y", " ", "n", "\n">> }

RECURSIVE TrimLeft(_)
TrimLeft(s) ==
    IF s # <<>> /\ Head(s) \in Whitespace THEN TrimLeft(Tail(s)) ELSE s

RECURSIVE TrimRight(_)
TrimRight(s) ==
    IF s # <<>> /\ s[Len(s)] \in Whitespace
    THEN TrimRight(SubSeq(s, 1, Len(s) - 1)) ELSE s

\* wooh.go:341: strings.TrimSpace
TrimSpace(s) == TrimRight(TrimLeft(s))

\* Variant of Answer: whatever is not "y" skips the product.
Answer_ElseReject(in) ==
    IF in = <<"y">> THEN "approve" ELSE "reject"

\* wooh.go:343-351: what the confirmation loop does with one trimmed line.
Answer(in) ==
    IF in = <<"y">> THEN "approve"
    ELSE IF in = <<"n">> THEN "reject"
    ELSE "again"

(***************************************************************************)
(* Catalogs: sequences of products with pairwise different identifiers.     *)
(* Only the identifier of a product takes part in the control flow of       *)
(* UpdateSEO (the other fields are text handed to the generator), and only  *)
(* through equality, so the products are numbered in catalog order; the     *)
(* tracker file may hold any of the identifiers, in or out of the catalog.  *)
(***************************************************************************)
Catalogs == {[k \in 1..n |-> [ID |-> k]] : n \in 0..MaxCatalog}

InitialFiles == {FileAbsent, FileCorrupt} \cup {FileOf(S) : S \in SUBSET IDs}

VARIABLES
    catalog,          \* what GetProducts returns when it succeeds
    trackerFile,      \* the tracker file on disk
    run,              \* number of invocations of UpdateSEO so far
    restartTracking,  \* argument of UpdateSEO
    prompt,           \* argument of UpdateSEO
    pc,               \* position of the process
    tracker,          \* tracker.UpdatedIDs: the identifiers mapped to true
    products,         \* the slice ranged over
    idx,              \* index of the current product (0 before the first)
    i,                \* loop variable of the retry loop
    metaTitle, metaDescription,
    input,            \* the trimmed line of the confirmation loop
    \* ---- history variables (observers; no guard reads them) ----
    rawLine,          \* the line last read from standard input
    genCalls,         \* generator calls made for the current product
    allErr,           \* every one of them returned an error
    allOver,          \* every one of them returned, without error, a pair over a limit
    prefixOver,       \* every one of them returned, without error, a title over its limit
    validAt,          \* number of the first call that returned a pair within the limits (0: none)
    okPairs,          \* the pairs within the limits returned without error for the current product
    sent,             \* the update request issued for the current product, if any
    putLog,           \* product and success of each update request of this run, in order
    trackerAt,        \* tracker when the loop reached the current product
    savesThis,        \* calls of tracker.save during the current iteration
    loaded,           \* tracker at the entry of the loop
    outcomes,         \* how the iteration of each product reached so far ended
    putOK,            \* identifiers whose update request succeeded in this run
    saved,            \* identifiers whose save returned nil in this run
    prevSaved,        \* the same for the previous run
    writeFailed       \* a write of the tracker file failed in this run

progVars == <<catalog, trackerFile, run, restartTracking, prompt, pc, tracker,
              products, idx, i, metaTitle, metaDescription, input>>
iterHist == <<rawLine, genCalls, allErr, allOver, prefixOver, validAt, okPairs,
              sent, trackerAt, savesThis>>
runHist == <<putLog, loaded, outcomes, putOK, saved, prevSaved, writeFailed>>

\* ---- the product cache and GetProducts (wooh.go:53-112, part_001:59-113) ----
VARIABLES
    cacheFile,        \* the cache file on disk
    now,              \* the wall clock, in hours
    gp,               \* position of GetProducts
    page,             \* the page requested next
    allProducts,      \* the products received so far
    ret,              \* what GetProducts returned
    \* ---- history variables ----
    requests,         \* the listing requests of this call, in order
    responses,        \* the pages received in this call, in order (first product, length)
    atCall,           \* the clock at the call and what FetchFromCache returned to it
                      \* (the data until the first request, the error until the next call)
    lastSave,         \* list, time and call of the SaveToCache that wrote the file, if any
    ticks,            \* clock steps taken
    calls             \* calls of GetProducts so far

cacheVars == <<cacheFile, now, gp, page, allProducts, ret, requests, responses,
               atCall, lastSave, ticks, calls>>

VARIABLES
    flags,            \* the command line of the invocation
    files,            \* the entries of the images directory, as os.ReadDir lists them
    upc,              \* position of the root command and of UploadImageToWordPress
    fidx,             \* entries of the listing gone through
    uploadedImages,   \* id and src of the media just uploaded
    upRet,            \* what UploadImageToWordPress returned
    \* ---- history variable ----
    httpLog           \* the media and product requests issued, in order

uploadVars == <<flags, files, upc, fidx, uploadedImages, upRet, httpLog>>

VARIABLES
    tpc,              \* position of each goroutine using the tracker
    mu,               \* holder of tracker.mu (0: unlocked)
    enc,              \* per goroutine: the map when json.Marshal began, and its output
    \* ---- history variable ----
    held              \* the sets tracker.UpdatedIDs has held

saveVars == <<tpc, mu, enc, held>>

vars == <<progVars, iterHist, runHist, cacheVars, uploadVars, saveVars>>

(***************************************************************************)
(* Go slices: a nil slice and an empty one are different values (JSON null  *)
(* and []), both of length 0.                                               *)
(***************************************************************************)
NilSlice == [nil |-> TRUE, items |-> <<>>]
Slice(s) == [nil |-> FALSE, items |-> s]

\* wooh.go:31-38: a WooProduct.
Product(k) ==
    [ID |-> k, Name |-> "n", Description |-> "d", ShortDescription |-> "s",
     Categories |-> <<>>, MetaData |-> <<>>]

\* wooh.go:79, 281: the page size and the age passed to GetProducts (hours).
perPage == 100
maxCacheAge == 24

\* part_001:84-91: the map SaveToCache builds for a product; in the file the
\* identifier is a JSON number.
ToMap(p) ==
    [id |-> [num |-> p.ID], name |-> p.Name, description |-> p.Description,
     short_description |-> p.ShortDescription, categories |-> p.Categories,
     meta_data |-> p.MetaData]

\* wooh.go:65-69: a cached map goes through JSON into a WooProduct, which
\* fails unless the fields have the types of the struct.
Convertible(m) == "num" \in DOMAIN m.id

FromMap(m) ==
    [ID |-> m.id.num, Name |-> m.name, Description |-> m.description,
     ShortDescription |-> m.short_description, Categories |-> m.categories,
     MetaData |-> m.meta_data]

ToMaps(ps) == [k \in 1..Len(ps) |-> ToMap(ps[k])]
FromMaps(ms) == [k \in 1..Len(ms) |-> FromMap(ms[k])]

\* A cached entry whose identifier is a JSON string.
IllTypedMap ==
    [id |-> [str |-> "x"], name |-> "n", description |-> "d",
     short_description |-> "s", categories |-> <<>>, meta_data |-> <<>>]

\* part_001:26-30: the cache file is absent, unreadable, not the JSON of a
\* ProductCache, or holds a list of maps and a time.
CacheFileAbsent == [st |-> "absent", products |-> NilSlice, last_update |-> 0]
CacheFileUnreadable == [st |-> "unreadable", products |-> NilSlice, last_update |-> 0]
CacheFileCorrupt(t) == [st |-> "corrupt", products |-> NilSlice, last_update |-> t]
CacheFileOf(maps, t) == [st |-> "ok", products |-> maps, last_update |-> t]

\* Variant of FetchFromCache: the boundary age is already expired.
FetchFromCache_Strict(file, maxAge, t) ==
    IF file.st = "absent" THEN [data |-> NilSlice, err |-> "nil"]
    ELSE IF file.st = "unreadable" THEN [data |-> NilSlice, err |-> "read"]
    ELSE IF file.st = "corrupt" THEN [data |-> NilSlice, err |-> "parse"]
    ELSE IF t - file.last_update < maxAge
    THEN [data |-> file.products, err |-> "nil"]
    ELSE [data |-> NilSlice, err |-> "nil"]

\* Variant of FetchFromCache: any failure to read the file counts as no file.
FetchFromCache_ReadAbsent(file, maxAge, t) ==
    IF file.st \in {"absent", "unreadable"} THEN [data |-> NilSlice, err |-> "nil"]
    ELSE IF file.st = "corrupt" THEN [data |-> NilSlice, err |-> "parse"]
    ELSE IF t - file.last_update <= maxAge
    THEN [data |-> file.products, err |-> "nil"]
    ELSE [data |-> NilSlice, err |-> "nil"]

\* part_001:59-77, called at time t.
FetchFromCache(file, maxAge, t) ==
    IF file.st = "absent" THEN [data |-> NilSlice, err |-> "nil"]
    ELSE IF file.st = "unreadable" THEN [data |-> NilSlice, err |-> "read"]
    ELSE IF file.st = "corrupt" THEN [data |-> NilSlice, err |-> "parse"]
    ELSE IF t - file.last_update <= maxAge
    THEN [data |-> file.products, err |-> "nil"]
    ELSE [data |-> NilSlice, err |-> "nil"]

\* part_001:82-93: productMaps is declared nil and grows by append, so it is
\* nil for an empty list.
ProductMaps(ps) == IF Len(ps) = 0 THEN NilSlice ELSE Slice(ToMaps(ps))

\* part_001:78-113, called at time t: the file after the call.  w is what
\* became of the write: done, not done (the marshalling, the directory or
\* the opening of the file failed), or cut short.
SaveToCache(ps, file, t, w) ==
    IF w = "ok" THEN CacheFileOf(ProductMaps(ps), t)
    ELSE IF w = "unchanged" THEN file
    ELSE CacheFileCorrupt(t)

\* wooh.go:64-73: GetProducts returns from the cache.
CacheHit(f) ==
    /\ f.err = "nil"
    /\ ~f.data.nil
    /\ \A k \in DOMAIN f.data.items : Convertible(f.data.items[k])

\* Variant of Accumulate: the page replaces what was received before.
Accumulate_Replace(all, received) == received

\* wooh.go:103: append(allProducts, products...)
Accumulate(all, received) == all \o received

NoReturn == [products |-> NilSlice, err |-> "none"]
NoFetch == [data |-> NilSlice, err |-> "none"]
NoCall == [now |-> 0, fetched |-> NoFetch]

\* GetProducts is not running and has not run.
CacheAtRest ==
    /\ cacheFile = CacheFileAbsent
    /\ now = 0
    /\ gp = "idle"
    /\ page = 0
    /\ allProducts = <<>>
    /\ ret = NoReturn
    /\ requests = <<>>
    /\ responses = <<>>
    /\ atCall = NoCall
    /\ lastSave = <<>>
    /\ ticks = 0
    /\ calls = 0

\* The root command has not run.
NoFlags ==
    [showVersion |-> FALSE, autofill |-> FALSE, configPath |-> "wooh.yaml",
     imagesPath |-> "."]

UploadAtRest ==
    /\ flags = NoFlags
    /\ files = <<>>
    /\ upc = "idle"
    /\ fidx = 0
    /\ uploadedImages = <<>>
    /\ upRet = "none"
    /\ httpLog = <<>>

\* No goroutine uses the tracker.
SaveAtRest ==
    /\ tpc = <<>>
    /\ mu = 0
    /\ enc = <<>>
    /\ held = {}

Stopped == {"idle", "done", "failed", "fatal", "killed"}

Init ==
    /\ catalog \in Catalogs
    /\ trackerFile \in InitialFiles
    /\ run = 0
    /\ restartTracking = FALSE
    /\ prompt = FALSE
    /\ pc = "idle"
    /\ tracker = {}
    /\ products = <<>>
    /\ idx = 0
    /\ i = 0
    /\ metaTitle = EmptyStr
    /\ metaDescription = EmptyStr
    /\ input = <<>>
    /\ rawLine = <<>>
    /\ genCalls = 0
    /\ allErr = TRUE
    /\ allOver = TRUE
    /\ prefixOver = TRUE
    /\ validAt = 0
    /\ okPairs = {}
    /\ sent = <<>>
    /\ putLog = <<>>
    /\ trackerAt = {}
    /\ savesThis = 0
    /\ loaded = {}
    /\ outcomes = <<>>
    /\ putOK = {}
    /\ saved = {}
    /\ prevSaved = {}
    /\ writeFailed = FALSE
    /\ CacheAtRest
    /\ UploadAtRest
    /\ SaveAtRest

\* The per-iteration history at the moment the loop reaches a product.
ResetIter ==
    /\ rawLine' = <<>>
    /\ genCalls' = 0
    /\ allErr' = TRUE
    /\ allOver' = TRUE
    /\ prefixOver' = TRUE
    /\ validAt' = 0
    /\ okPairs' = {}
    /\ sent' = <<>>
    /\ trackerAt' = tracker
    /\ savesThis' = 0

\* The per-iteration history when no iteration is under way.
ClearIter ==
    /\ rawLine' = <<>>
    /\ genCalls' = 0
    /\ allErr' = TRUE
    /\ allOver' = TRUE
    /\ prefixOver' = TRUE
    /\ validAt' = 0
    /\ okPairs' = {}
    /\ sent' = <<>>
    /\ trackerAt' = {}
    /\ savesThis' = 0

CurID == products[idx].ID

\* The variables declared in the body of the product loop (wooh.go:304-333)
\* go out of scope at every continue and at the end of the body.
locals == <<i, metaTitle, metaDescription, input>>

LeaveBody ==
    /\ i' = 0
    /\ metaTitle' = EmptyStr
    /\ metaDescription' = EmptyStr
    /\ input' = <<>>

\* Variant of Enter: the tracker file is loaded whatever the restart flag.
Enter_LoadAlways(restart, ask, dirOK) ==
    /\ pc \in Stopped
    /\ run < MaxRuns
    /\ run' = run + 1
    /\ restartTracking' = restart
    /\ prompt' = ask
    /\ products' = <<>>
    /\ idx' = 0
    /\ LeaveBody
    /\ IF ~dirOK
       THEN /\ pc' = "fatal"
            /\ tracker' = {}
       ELSE LET t == TrackerLoad(trackerFile) IN
            /\ tracker' = t.ids
            /\ pc' = IF t.err THEN "failed" ELSE "fetch"
    /\ loaded' = tracker'
    /\ putLog' = <<>>
    /\ outcomes' = <<>>
    /\ prevSaved' = saved
    /\ putOK' = {}
    /\ saved' = {}
    /\ writeFailed' = FALSE
    /\ ClearIter
    /\ UNCHANGED <<catalog, trackerFile>>
    /\ UNCHANGED <<cacheVars, uploadVars, saveVars>>

(***************************************************************************)
(* wooh.go:256-279.  UpdateSEO is entered with its two flags; the output    *)
(* directory is created (a failure there is fatal, ErrChk); the tracker is  *)
(* made fresh or loaded from the file.                                      *)
(***************************************************************************)
Enter(restart, ask, dirOK) ==
    /\ pc \in Stopped
    /\ run < MaxRuns
    /\ run' = run + 1
    /\ restartTracking' = restart
    /\ prompt' = ask
    /\ products' = <<>>
    /\ idx' = 0
    /\ i' = 0
    /\ metaTitle' = EmptyStr
    /\ metaDescription' = EmptyStr
    /\ input' = <<>>
    /\ IF ~dirOK
       THEN /\ pc' = "fatal"
            /\ tracker' = {}
       ELSE IF restart
       THEN /\ pc' = "fetch"
            /\ tracker' = {}
       ELSE LET t == TrackerLoad(trackerFile) IN
            /\ tracker' = t.ids
            /\ pc' = IF t.err THEN "failed" ELSE "fetch"
    /\ loaded' = tracker'
    /\ putLog' = <<>>
    /\ outcomes' = <<>>
    /\ prevSaved' = saved
    /\ putOK' = {}
    /\ saved' = {}
    /\ writeFailed' = FALSE
    /\ ClearIter
    /\ UNCHANGED <<catalog, trackerFile>>
    /\ UNCHANGED <<cacheVars, uploadVars, saveVars>>

\* wooh.go:281-287.  GetProducts returns the catalog or an error.
FetchProducts(ok) ==
    /\ pc = "fetch"
    /\ IF ok
       THEN /\ products' = catalog
            /\ pc' = "loop"
       ELSE /\ products' = <<>>
            /\ pc' = "failed"
    /\ UNCHANGED <<catalog, trackerFile, run, restartTracking, prompt, tracker,
                    idx, i, metaTitle, metaDescription, input>>
    /\ UNCHANGED <<iterHist, runHist>>
    /\ UNCHANGED <<cacheVars, uploadVars, saveVars>>

\* wooh.go:289, 399: the range is exhausted, UpdateSEO returns nil.
LoopEnd ==
    /\ pc = "loop"
    /\ idx = Len(products)
    /\ pc' = "done"
    /\ ClearIter
    /\ UNCHANGED <<catalog, trackerFile, run, restartTracking, prompt, tracker,
                    products, idx, i, metaTitle, metaDescription, input>>
    /\ UNCHANGED runHist
    /\ UNCHANGED <<cacheVars, uploadVars, saveVars>>

\* wooh.go:289-296: the next product is already tracked.
SkipTracked ==
    /\ pc = "loop"
    /\ idx < Len(products)
    /\ IsTracked(tracker, products[idx + 1].ID)
    /\ idx' = idx + 1
    /\ pc' = "loop"
    /\ outcomes' = Append(outcomes, [id |-> products[idx + 1].ID, res |-> "skipped"])
    /\ ResetIter
    /\ UNCHANGED <<catalog, trackerFile, run, restartTracking, prompt, tracker,
                    products, i, metaTitle, metaDescription, input>>
    /\ UNCHANGED <<putLog, loaded, putOK, saved, prevSaved, writeFailed>>
    /\ UNCHANGED <<cacheVars, uploadVars, saveVars>>

\* wooh.go:289-302: the next product is not tracked.
BeginProduct ==
    /\ pc = "loop"
    /\ idx < Len(products)
    /\ ~IsTracked(tracker, products[idx + 1].ID)
    /\ idx' = idx + 1
    /\ pc' = "clean"
    /\ ResetIter
    /\ UNCHANGED <<catalog, trackerFile, run, restartTracking, prompt, tracker,
                    products, i, metaTitle, metaDescription, input>>
    /\ UNCHANGED runHist
    /\ UNCHANGED <<cacheVars, uploadVars, saveVars>>

\* wooh.go:304-315 with cleanHTMLToMarkdown (238-251): a conversion error
\* ends the process (log.Fatal); otherwise the retry loop is set up.
CleanDescription(ok) ==
    /\ pc = "clean"
    /\ IF ok
       THEN /\ pc' = "gen"
            /\ i' = 0
            /\ metaTitle' = EmptyStr
            /\ metaDescription' = EmptyStr
       ELSE /\ pc' = "fatal"
            /\ UNCHANGED <<i, metaTitle, metaDescription>>
    /\ UNCHANGED <<catalog, trackerFile, run, restartTracking, prompt, tracker,
                    products, idx, input>>
    /\ UNCHANGED <<iterHist, runHist>>
    /\ UNCHANGED <<cacheVars, uploadVars, saveVars>>

\* The two limits, as the specification states them (used by the history
\* variables and the properties only).
PairValid(t, d) == t.len <= 60 /\ d.len <= 160
TitleOver(t) == t.len > 60

\* wooh.go:315-326: one iteration of the retry loop, a generator call.  The
\* error returned is read at once (317) and never again: it is not kept.
Generate(reply) ==
    /\ pc = "gen"
    /\ i < retries
    /\ LET r == OpenAIProcess(reply)
           good == r.err = "nil" /\ PairValid(r.title, r.desc)
       IN
       /\ metaTitle' = r.title
       /\ metaDescription' = r.desc
       /\ IF r.err # "nil"
          THEN /\ i' = i + 1                                \* continue
               /\ pc' = "gen"
          ELSE IF WithinLimits(r.title, r.desc)
          THEN /\ i' = i                                    \* break
               /\ pc' = "check"
          ELSE /\ i' = i + 1
               /\ pc' = "gen"
       /\ genCalls' = genCalls + 1
       /\ allErr' = (allErr /\ r.err # "nil")
       /\ allOver' = (allOver /\ r.err = "nil" /\ ~PairValid(r.title, r.desc))
       /\ prefixOver' = IF validAt # 0 \/ good THEN prefixOver
                        ELSE prefixOver /\ r.err = "nil" /\ TitleOver(r.title)
       /\ validAt' = IF validAt = 0 /\ good THEN genCalls + 1 ELSE validAt
       /\ okPairs' = IF good THEN okPairs \cup {<<r.title, r.desc>>} ELSE okPairs
    /\ UNCHANGED <<catalog, trackerFile, run, restartTracking, prompt, tracker,
                    products, idx, input>>
    /\ UNCHANGED <<rawLine, sent, trackerAt, savesThis>>
    /\ UNCHANGED runHist
    /\ UNCHANGED <<cacheVars, uploadVars, saveVars>>

\* wooh.go:315: the retry loop ends because i reached retries.
RetriesSpent ==
    /\ pc = "gen"
    /\ ~(i < retries)
    /\ pc' = "check"
    /\ UNCHANGED <<catalog, trackerFile, run, restartTracking, prompt, tracker,
                    products, idx, i, metaTitle, metaDescription, input>>
    /\ UNCHANGED <<iterHist, runHist>>
    /\ UNCHANGED <<cacheVars, uploadVars, saveVars>>

\* Variant of CheckLimits: a product without valid fields is generated for
\* again, from the first attempt.
CheckLimits_Retry ==
    /\ pc = "check"
    /\ IF ExceedsLimits(metaTitle, metaDescription)
       THEN /\ pc' = "gen"
            /\ i' = 0
            /\ UNCHANGED <<metaTitle, metaDescription, input>>
       ELSE /\ pc' = IF prompt THEN "prompt" ELSE "put"
            /\ UNCHANGED locals
    /\ UNCHANGED <<catalog, trackerFile, run, restartTracking, prompt, tracker,
                    products, idx>>
    /\ UNCHANGED <<iterHist, runHist>>
    /\ UNCHANGED <<cacheVars, uploadVars, saveVars>>

\* Variant of CheckLimits: a product without valid fields ends the run with
\* an error.
CheckLimits_Return ==
    /\ pc = "check"
    /\ pc' = IF ExceedsLimits(metaTitle, metaDescription) THEN "failed"
             ELSE IF prompt THEN "prompt" ELSE "put"
    /\ UNCHANGED <<catalog, trackerFile, run, restartTracking, prompt, tracker,
                    products, idx>>
    /\ UNCHANGED <<locals, iterHist, runHist>>
    /\ UNCHANGED <<cacheVars, uploadVars, saveVars>>

\* wooh.go:328-335: the length test after the loop.
CheckLimits ==
    /\ pc = "check"
    /\ IF ExceedsLimits(metaTitle, metaDescription)
       THEN /\ pc' = "loop"                                  \* continue
            /\ outcomes' = Append(outcomes, [id |-> CurID, res |-> "exhausted"])
            /\ LeaveBody
       ELSE /\ pc' = IF prompt THEN "prompt" ELSE "put"
            /\ UNCHANGED outcomes
            /\ UNCHANGED locals
    /\ UNCHANGED <<catalog, trackerFile, run, restartTracking, prompt, tracker,
                    products, idx>>
    /\ UNCHANGED <<putLog, loaded, putOK, saved, prevSaved, writeFailed>>
    /\ UNCHANGED iterHist
    /\ UNCHANGED <<cacheVars, uploadVars, saveVars>>

\* wooh.go:338-357: one iteration of the confirmation loop, one line read.
Prompt(line) ==
    /\ pc = "prompt"
    /\ rawLine' = line
    /\ LET in == TrimSpace(line)
           a == Answer(in)
       IN
       IF a = "approve"
       THEN /\ pc' = "put"
            /\ input' = in
            /\ UNCHANGED <<i, metaTitle, metaDescription>>
            /\ UNCHANGED outcomes
       ELSE IF a = "reject"
       THEN /\ pc' = "loop"                                  \* skipThisProduct
            /\ outcomes' = Append(outcomes, [id |-> CurID, res |-> "rejected"])
            /\ LeaveBody
       ELSE /\ pc' = "prompt"
            /\ input' = in
            /\ UNCHANGED <<i, metaTitle, metaDescription>>
            /\ UNCHANGED outcomes
    /\ UNCHANGED <<catalog, trackerFile, run, restartTracking, prompt, tracker,
                    products, idx>>
    /\ UNCHANGED <<genCalls, allErr, allOver, prefixOver, validAt, okPairs,
                    sent, trackerAt, savesThis>>
    /\ UNCHANGED <<putLog, loaded, putOK, saved, prevSaved, writeFailed>>
    /\ UNCHANGED <<cacheVars, uploadVars, saveVars>>

\* wooh.go:359-370: the body of the update request.
UpdatePayload(t, d) ==
    << [key |-> "_yoast_wpseo_title", value |-> t],
       [key |-> "_yoast_wpseo_metadesc", value |-> d] >>

PutResults == {"ok", "transport", "status"}

\* Variant of UpdateFailed: the status of the response is not looked at.
UpdateFailed_TransportOnly(res) == res = "transport"

\* wooh.go:382, 386: err != nil, resp.IsError()
UpdateFailed(res) == res = "transport" \/ res = "status"

\* wooh.go:359-389: the PUT request and the test of its result.
RemoteUpdate(res) ==
    /\ pc = "put"
    /\ sent' = Append(sent, [id |-> CurID,
                             meta_data |-> UpdatePayload(metaTitle, metaDescription)])
    /\ putLog' = Append(putLog, [id |-> CurID, ok |-> res = "ok"])
    /\ putOK' = IF res = "ok" THEN putOK \cup {CurID} ELSE putOK
    /\ IF UpdateFailed(res)
       THEN /\ pc' = "loop"                                  \* continue
            /\ outcomes' = Append(outcomes, [id |-> CurID, res |-> "failed"])
            /\ LeaveBody
       ELSE /\ pc' = "mark"
            /\ UNCHANGED outcomes
            /\ UNCHANGED locals
    /\ UNCHANGED <<catalog, trackerFile, run, restartTracking, prompt, tracker,
                    products, idx>>
    /\ UNCHANGED <<rawLine, genCalls, allErr, allOver, prefixOver, validAt,
                    okPairs, trackerAt, savesThis>>
    /\ UNCHANGED <<loaded, saved, prevSaved, writeFailed>>
    /\ UNCHANGED <<cacheVars, uploadVars, saveVars>>

WriteResults == {"ok", "unchanged", "partial"}

\* Variant of Save: the set is written when the loop is over, not here.
Save_Deferred(t, file, w) == file

\* part_001:51-58: save writes the whole set with os.WriteFile, which
\* truncates the file and then writes: a failure leaves the old content (the
\* file could not be opened) or a file that does not parse.
Save(t, file, w) ==
    IF w = "ok" THEN FileOf(t)
    ELSE IF w = "unchanged" THEN file
    ELSE FileCorrupt

\* wooh.go:391-396: mark the product and save the tracker; a failed save is
\* logged only.
MarkAndSave(w) ==
    /\ pc = "mark"
    /\ tracker' = tracker \cup {CurID}
    /\ trackerFile' = Save(tracker', trackerFile, w)
    /\ savesThis' = savesThis + 1
    /\ saved' = IF w = "ok" THEN saved \cup {CurID} ELSE saved
    /\ writeFailed' = (writeFailed \/ w # "ok")
    /\ outcomes' = Append(outcomes, [id |-> CurID, res |-> "committed"])
    /\ pc' = "loop"
    /\ LeaveBody
    /\ UNCHANGED <<catalog, run, restartTracking, prompt, products, idx>>
    /\ UNCHANGED <<rawLine, genCalls, allErr, allOver, prefixOver, validAt,
                    okPairs, sent, trackerAt>>
    /\ UNCHANGED <<putLog, loaded, putOK, prevSaved>>
    /\ UNCHANGED <<cacheVars, uploadVars, saveVars>>

\* The process is terminated from outside, between two steps.  What it held
\* in memory is gone; the file stays.
Terminate ==
    /\ pc \notin Stopped
    /\ pc' = "killed"
    /\ tracker' = {}
    /\ products' = <<>>
    /\ idx' = 0
    /\ LeaveBody
    /\ ClearIter
    /\ putLog' = <<>>
    /\ loaded' = {}
    /\ outcomes' = <<>>
    /\ UNCHANGED <<catalog, trackerFile, run, restartTracking, prompt>>
    /\ UNCHANGED <<putOK, saved, prevSaved, writeFailed>>
    /\ UNCHANGED <<cacheVars, uploadVars, saveVars>>

Next ==
    \/ \E restart \in BOOLEAN, ask \in BOOLEAN, dirOK \in BOOLEAN :
            Enter(restart, ask, dirOK)
    \/ \E ok \in BOOLEAN : FetchProducts(ok)
    \/ LoopEnd
    \/ SkipTracked
    \/ BeginProduct
    \/ \E ok \in BOOLEAN : CleanDescription(ok)
    \/ \E reply \in Replies : Generate(reply)
    \/ RetriesSpent
    \/ CheckLimits
    \/ \E line \in InputLines : Prompt(line)
    \/ \E res \in PutResults : RemoteUpdate(res)
    \/ \E w \in WriteResults : MarkAndSave(w)
    \/ Terminate

Spec == Init /\ [][Next]_vars

(***************************************************************************)
(* One run with the confirmation disabled, left to itself: UpdateSEO is     *)
(* called once (wooh.go:256) with prompt = false and the process is not     *)
(* terminated from outside.  The code is sequential: after each statement   *)
(* it executes the next one, which is weak fairness of its steps, on the    *)
(* assumption that every call it makes (disk, generator, store) returns.    *)
(***************************************************************************)
EnterUnprompted ==
    /\ pc = "idle"
    /\ \E restart \in BOOLEAN, dirOK \in BOOLEAN : Enter(restart, FALSE, dirOK)

RunStep ==
    \/ \E ok \in BOOLEAN : FetchProducts(ok)
    \/ LoopEnd
    \/ SkipTracked
    \/ BeginProduct
    \/ \E ok \in BOOLEAN : CleanDescription(ok)
    \/ \E reply \in Replies : Generate(reply)
    \/ RetriesSpent
    \/ CheckLimits
    \/ \E res \in PutResults : RemoteUpdate(res)
    \/ \E w \in WriteResults : MarkAndSave(w)

NextRun == EnterUnprompted \/ RunStep

FairSpec == Init /\ [][NextRun]_vars /\ WF_vars(RunStep)

(***************************************************************************)
(* GetProducts with its cache (wooh.go:53-112), on its own: UpdateSEO is at *)
(* rest.  The clock advances between the calls.                             *)
(***************************************************************************)
MaxPages == 2     \* full pages a listing may have
MaxShort == 2     \* length of the longest last page and of a cached list
MaxTicks == 2     \* clock steps
MaxCalls == 2     \* calls of GetProducts

SEOAtRest ==
    /\ catalog = <<>>
    /\ trackerFile = FileAbsent
    /\ run = 0
    /\ restartTracking = FALSE
    /\ prompt = FALSE
    /\ pc = "idle"
    /\ tracker = {}
    /\ products = <<>>
    /\ idx = 0
    /\ i = 0
    /\ metaTitle = EmptyStr
    /\ metaDescription = EmptyStr
    /\ input = <<>>
    /\ rawLine = <<>>
    /\ genCalls = 0
    /\ allErr = TRUE
    /\ allOver = TRUE
    /\ prefixOver = TRUE
    /\ validAt = 0
    /\ okPairs = {}
    /\ sent = <<>>
    /\ putLog = <<>>
    /\ trackerAt = {}
    /\ savesThis = 0
    /\ loaded = {}
    /\ outcomes = <<>>
    /\ putOK = {}
    /\ saved = {}
    /\ prevSaved = {}
    /\ writeFailed = FALSE

\* The products first..last of the store, in order.
Range(first, last) == [k \in 1..(last - first + 1) |-> Product(first + k - 1)]

\* The lists of maps a cache file may hold when the program starts: written
\* by SaveToCache (null for an empty list), or by hand ([], or an entry of
\* another shape).
InitialCachedLists ==
    {ProductMaps(Range(1, n)) : n \in 0..MaxShort}
        \cup {Slice(<<>>), Slice(<<IllTypedMap>>)}

\* The times of a cache file, around the age limit of a call at time 0.
InitialStamps == {0 - maxCacheAge - 1, 0 - maxCacheAge, 1 - maxCacheAge, 0, 1}

InitialCacheFiles ==
    {CacheFileAbsent, CacheFileUnreadable}
        \cup {CacheFileCorrupt(t) : t \in InitialStamps}
        \cup {CacheFileOf(l, t) : l \in InitialCachedLists, t \in InitialStamps}

CacheInit ==
    /\ SEOAtRest
    /\ cacheFile \in InitialCacheFiles
    /\ now = 0
    /\ gp = "idle"
    /\ page = 0
    /\ allProducts = <<>>
    /\ ret = NoReturn
    /\ requests = <<>>
    /\ responses = <<>>
    /\ atCall = NoCall
    /\ lastSave = <<>>
    /\ ticks = 0
    /\ calls = 0
    /\ UploadAtRest
    /\ SaveAtRest

seoVars == <<progVars, iterHist, runHist>>

\* Variant of GetProductsCall: an error of FetchFromCache is returned.
GetProductsCall_ReturnErr(dirOK) ==
    /\ gp \in {"idle", "returned", "fatal"}
    /\ calls < MaxCalls
    /\ calls' = calls + 1
    /\ requests' = <<>>
    /\ responses' = <<>>
    /\ allProducts' = <<>>
    /\ LET f == FetchFromCache(cacheFile, maxCacheAge, now) IN
       /\ atCall' = [now |-> now, fetched |-> IF dirOK THEN f ELSE NoFetch]
       /\ IF ~dirOK
          THEN /\ gp' = "fatal"
               /\ page' = 0
               /\ ret' = NoReturn
          ELSE IF f.err # "nil"
          THEN /\ gp' = "returned"
               /\ page' = 0
               /\ ret' = [products |-> NilSlice, err |-> f.err]
          ELSE IF CacheHit(f)
          THEN /\ gp' = "returned"
               /\ page' = 0
               /\ ret' = [products |-> Slice(FromMaps(f.data.items)), err |-> "nil"]
          ELSE /\ gp' = "paging"
               /\ page' = 1
               /\ ret' = NoReturn
    /\ UNCHANGED <<cacheFile, now, lastSave, ticks>>
    /\ UNCHANGED <<seoVars, uploadVars, saveVars>>

\* wooh.go:53-79: the call, up to the first listing request.  The output
\* directory is made (a failure is fatal, ErrChk) and the cache is read.
GetProductsCall(dirOK) ==
    /\ gp \in {"idle", "returned", "fatal"}
    /\ calls < MaxCalls
    /\ calls' = calls + 1
    /\ requests' = <<>>
    /\ responses' = <<>>
    /\ allProducts' = <<>>
    /\ LET f == FetchFromCache(cacheFile, maxCacheAge, now) IN
       /\ atCall' = [now |-> now, fetched |-> IF dirOK THEN f ELSE NoFetch]
       /\ IF ~dirOK
          THEN /\ gp' = "fatal"
               /\ page' = 0
               /\ ret' = NoReturn
          ELSE IF CacheHit(f)
          THEN /\ gp' = "returned"
               /\ page' = 0
               /\ ret' = [products |-> Slice(FromMaps(f.data.items)), err |-> "nil"]
          ELSE /\ gp' = "paging"
               /\ page' = 1
               /\ ret' = NoReturn
    /\ UNCHANGED <<cacheFile, now, lastSave, ticks>>
    /\ UNCHANGED <<seoVars, uploadVars, saveVars>>

\* What the store may answer to the request for page p: a failure, a body
\* that is no list of products, or a list of at most perPage products (the n
\* products from first on).
PageReplies(p) ==
    {[kind |-> k, first |-> 0, n |-> 0] : k \in {"transport", "status", "garbage"}}
        \cup {[kind |-> "ok", first |-> (p - 1) * perPage + 1, n |-> n] :
                 n \in (0..MaxShort) \cup (IF p <= MaxPages THEN {perPage} ELSE {})}

AllReplies == UNION {PageReplies(p) : p \in 1..(MaxPages + 1)}

\* The products of a received page.
Items(r) == Range(r.first, r.first + r.n - 1)

\* Variant of GetPage: after a failed request what was received so far is
\* written to the cache and returned.
GetPage_Partial(reply) ==
    /\ gp = "paging"
    /\ reply \in PageReplies(page)
    /\ requests' = Append(requests, [page |-> page, per_page |-> perPage])
    /\ IF reply.kind # "ok"
       THEN /\ gp' = "saving"
            /\ UNCHANGED <<ret, page, allProducts, responses>>
       ELSE /\ responses' = Append(responses, [first |-> reply.first, n |-> reply.n])
            /\ allProducts' = Accumulate(allProducts, Items(reply))
            /\ UNCHANGED ret
            /\ IF Len(Items(reply)) < perPage
               THEN /\ gp' = "saving"
                    /\ UNCHANGED page
               ELSE /\ gp' = "paging"
                    /\ page' = page + 1
    /\ atCall' = [atCall EXCEPT !.fetched.data = NilSlice]
    /\ UNCHANGED <<cacheFile, now, lastSave, ticks, calls>>
    /\ UNCHANGED <<seoVars, uploadVars, saveVars>>

\* Variant of GetPage: the loop ends at the first empty page.
GetPage_StopOnEmpty(reply) ==
    /\ gp = "paging"
    /\ reply \in PageReplies(page)
    /\ requests' = Append(requests, [page |-> page, per_page |-> perPage])
    /\ IF reply.kind # "ok"
       THEN /\ gp' = "returned"
            /\ ret' = [products |-> NilSlice, err |-> reply.kind]
            /\ page' = 0
            /\ allProducts' = <<>>
            /\ UNCHANGED responses
       ELSE /\ responses' = Append(responses, [first |-> reply.first, n |-> reply.n])
            /\ allProducts' = Accumulate(allProducts, Items(reply))
            /\ UNCHANGED ret
            /\ IF Len(Items(reply)) = 0 \/ page > MaxPages
               THEN /\ gp' = "saving"
                    /\ UNCHANGED page
               ELSE /\ gp' = "paging"
                    /\ page' = page + 1
    /\ atCall' = [atCall EXCEPT !.fetched.data = NilSlice]
    /\ UNCHANGED <<cacheFile, now, lastSave, ticks, calls>>
    /\ UNCHANGED <<seoVars, uploadVars, saveVars>>

\* wooh.go:80-108: one iteration of the listing loop.
GetPage(reply) ==
    /\ gp = "paging"
    /\ reply \in PageReplies(page)
    /\ requests' = Append(requests, [page |-> page, per_page |-> perPage])
    /\ IF reply.kind # "ok"
       THEN /\ gp' = "returned"
            /\ ret' = [products |-> NilSlice, err |-> reply.kind]
            /\ page' = 0
            /\ allProducts' = <<>>
            /\ UNCHANGED responses
       ELSE /\ responses' = Append(responses, [first |-> reply.first, n |-> reply.n])
            /\ allProducts' = Accumulate(allProducts, Items(reply))
            /\ UNCHANGED ret
            /\ IF Len(Items(reply)) < perPage
               THEN /\ gp' = "saving"                          \* break
                    /\ UNCHANGED page
               ELSE /\ gp' = "paging"
                    /\ page' = page + 1
    /\ atCall' = [atCall EXCEPT !.fetched.data = NilSlice]
    /\ UNCHANGED <<cacheFile, now, lastSave, ticks, calls>>
    /\ UNCHANGED <<seoVars, uploadVars, saveVars>>

\* Variant of SaveAndReturn: a failed write of the cache is returned as an
\* error.
SaveAndReturn_FailOnWrite(w) ==
    /\ gp = "saving"
    /\ cacheFile' = SaveToCache(allProducts, cacheFile, now, w)
    /\ lastSave' = IF w = "ok"
                   THEN << [list |-> allProducts, at |-> now, call |-> calls] >>
                   ELSE IF w = "unchanged" THEN lastSave
                   ELSE <<>>
    /\ ret' = IF w = "ok" THEN [products |-> Slice(allProducts), err |-> "nil"]
              ELSE [products |-> NilSlice, err |-> "write"]
    /\ gp' = "returned"
    /\ page' = 0
    /\ allProducts' = <<>>
    /\ UNCHANGED <<now, requests, responses, atCall, ticks, calls>>
    /\ UNCHANGED <<seoVars, uploadVars, saveVars>>

\* wooh.go:110-111: the list is written to the cache (a failure is logged
\* only) and returned.
SaveAndReturn(w) ==
    /\ gp = "saving"
    /\ cacheFile' = SaveToCache(allProducts, cacheFile, now, w)
    /\ lastSave' = IF w = "ok"
                   THEN << [list |-> allProducts, at |-> now, call |-> calls] >>
                   ELSE IF w = "unchanged" THEN lastSave
                   ELSE <<>>
    /\ ret' = [products |-> Slice(allProducts), err |-> "nil"]
    /\ gp' = "returned"
    /\ page' = 0
    /\ allProducts' = <<>>
    /\ UNCHANGED <<now, requests, responses, atCall, ticks, calls>>
    /\ UNCHANGED <<seoVars, uploadVars, saveVars>>

\* Time passes between two calls: an hour, or the age limit.
Tick(d) ==
    /\ gp \in {"idle", "returned", "fatal"}
    /\ ticks < MaxTicks
    /\ ticks' = ticks + 1
    /\ now' = now + d
    /\ UNCHANGED <<cacheFile, gp, page, allProducts, ret, requests, responses,
                    atCall, lastSave, calls>>
    /\ UNCHANGED <<seoVars, uploadVars, saveVars>>

CacheNext ==
    \/ \E dirOK \in BOOLEAN : GetProductsCall(dirOK)
    \/ \E reply \in AllReplies : GetPage(reply)
    \/ \E w \in WriteResults : SaveAndReturn(w)
    \/ \E d \in {1, maxCacheAge} : Tick(d)

CacheSpec == CacheInit /\ [][CacheNext]_vars

(***************************************************************************)
(* UpdateSEO with the GetProducts it calls (wooh.go:256-287): one           *)
(* invocation, from its flags to the catalog it goes on to process, over    *)
(* the tracker files and the cache files the program may find.              *)
(***************************************************************************)
ResetInit ==
    /\ catalog = <<>>
    /\ trackerFile \in InitialFiles
    /\ run = 0
    /\ restartTracking = FALSE
    /\ prompt = FALSE
    /\ pc = "idle"
    /\ tracker = {}
    /\ products = <<>>
    /\ idx = 0
    /\ i = 0
    /\ metaTitle = EmptyStr
    /\ metaDescription = EmptyStr
    /\ input = <<>>
    /\ rawLine = <<>>
    /\ genCalls = 0
    /\ allErr = TRUE
    /\ allOver = TRUE
    /\ prefixOver = TRUE
    /\ validAt = 0
    /\ okPairs = {}
    /\ sent = <<>>
    /\ putLog = <<>>
    /\ trackerAt = {}
    /\ savesThis = 0
    /\ loaded = {}
    /\ outcomes = <<>>
    /\ putOK = {}
    /\ saved = {}
    /\ prevSaved = {}
    /\ writeFailed = FALSE
    /\ cacheFile \in InitialCacheFiles
    /\ now = 0
    /\ gp = "idle"
    /\ page = 0
    /\ allProducts = <<>>
    /\ ret = NoReturn
    /\ requests = <<>>
    /\ responses = <<>>
    /\ atCall = NoCall
    /\ lastSave = <<>>
    /\ ticks = 0
    /\ calls = 0
    /\ UploadAtRest
    /\ SaveAtRest

\* wooh.go:282-286: what GetProducts returned is the slice ranged over, or
\* UpdateSEO returns its error.
ReceiveProducts ==
    /\ pc = "fetch"
    /\ gp = "returned"
    /\ IF ret.err = "nil"
       THEN /\ products' = ret.products.items
            /\ pc' = "loop"
       ELSE /\ products' = <<>>
            /\ pc' = "failed"
    /\ UNCHANGED <<catalog, trackerFile, run, restartTracking, prompt, tracker,
                    idx, i, metaTitle, metaDescription, input>>
    /\ UNCHANGED <<iterHist, runHist>>
    /\ UNCHANGED <<cacheVars, uploadVars, saveVars>>

\* wooh.go:256: the one invocation.
EnterOnce ==
    /\ pc = "idle"
    /\ \E restart \in BOOLEAN, ask \in BOOLEAN, dirOK \in BOOLEAN :
           Enter(restart, ask, dirOK)

\* wooh.go:281-282: GetProducts runs inside UpdateSEO, with the same
\* maxCacheAge whatever the flags.
CallGetProducts ==
    /\ pc = "fetch"
    /\ gp = "idle"
    /\ \E dirOK \in BOOLEAN : GetProductsCall(dirOK)

GetProductsStep ==
    /\ pc = "fetch"
    /\ \/ \E reply \in AllReplies : GetPage(reply)
       \/ \E w \in WriteResults : SaveAndReturn(w)

ResetNext ==
    \/ EnterOnce
    \/ CallGetProducts
    \/ GetProductsStep
    \/ ReceiveProducts

ResetSpec == ResetInit /\ [][ResetNext]_vars

(***************************************************************************)
(* The root command and the directory upload (part_000:43-80,               *)
(* wooh.go:401-493).  A file name is the sequence of its characters.        *)
(***************************************************************************)
MaxFiles == 2     \* entries of the images directory

\* filepath.Ext: the suffix of the name that starts at its last dot, empty
\* when the name has no dot.
LastDot(name) ==
    IF \E k \in DOMAIN name : name[k] = "."
    THEN CHOOSE k \in DOMAIN name :
             /\ name[k] = "."
             /\ \A j \in DOMAIN name : name[j] = "." => j <= k
    ELSE 0

Ext(name) ==
    IF LastDot(name) = 0 THEN <<>> ELSE SubSeq(name, LastDot(name), Len(name))

\* wooh.go:413: fileName[:len(fileName)-len(filepath.Ext(fileName))]
ProductName(name) == SubSeq(name, 1, Len(name) - Len(Ext(name)))

\* regexp.MatchString(pattern, val) for the patterns met here: "." stands for
\* any character, "[" with no "]" after it does not compile, every other
\* character of the names below stands for itself; the match is not anchored.
Compiles(pattern) == \A k \in DOMAIN pattern : pattern[k] # "["

MatchesAt(pattern, val, at) ==
    /\ at + Len(pattern) - 1 <= Len(val)
    /\ \A k \in DOMAIN pattern :
           pattern[k] = "." \/ pattern[k] = val[at + k - 1]

MatchString(pattern, val) ==
    [match |-> /\ Compiles(pattern)
               /\ \E at \in 1..(Len(val) + 1) : MatchesAt(pattern, val, at),
     err |-> ~Compiles(pattern)]

\* part_001:115-122: the loop returns in its first iteration, with the match
\* of the pattern against the first element; the error is dropped.
Contains(strRange, pattern) ==
    IF strRange = <<>> THEN FALSE
    ELSE MatchString(pattern, strRange[1]).match

\* wooh.go:410: []string{".jpg", ".jpeg", ".png", ".gif"}
ImageExts ==
    << <<".", "j", "p", "g">>, <<".", "j", "p", "e", "g">>,
       <<".", "p", "n", "g">>, <<".", "g", "i", "f">> >>

\* wooh.go:410: the test an entry passes to be uploaded.
Uploadable(entry) == ~entry.dir /\ Contains(ImageExts, Ext(entry.name))

\* The entries a directory may hold, in the order of os.ReadDir (by name).
DirEntries ==
    << [name |-> <<"L">>, dir |-> FALSE],
       [name |-> <<"a", ".", "j", "p", "g">>, dir |-> FALSE],
       [name |-> <<"b", ".", "j", "p", "e", "g">>, dir |-> FALSE],
       [name |-> <<"c", ".", "p", "n", "g">>, dir |-> FALSE],
       [name |-> <<"d", ".", "g", "i", "f">>, dir |-> FALSE],
       [name |-> <<"e", ".", "j", "p", "g">>, dir |-> TRUE],
       [name |-> <<"n", ".", "t", "x", "t">>, dir |-> FALSE],
       [name |-> <<"s", ".", "p">>, dir |-> FALSE],
       [name |-> <<"z", ".", "[">>, dir |-> FALSE] >>

Listing(S) ==
    LET n == Cardinality(S)
        f == CHOOSE g \in [1..n -> S] : \A a, b \in 1..n : a < b => g[a] < g[b]
    IN  [k \in 1..n |-> DirEntries[f[k]]]

Listings ==
    {Listing(S) : S \in {T \in SUBSET DOMAIN DirEntries : Cardinality(T) <= MaxFiles}}

\* part_000:82-88: the flags read by the root command, with their defaults.
\* "imgs" is a directory that exists, "gone" a path that does not.
CommandLines ==
    [showVersion : BOOLEAN, autofill : BOOLEAN,
     configPath : {"wooh.yaml", "my.yaml", ""},
     imagesPath : {".", "imgs", "gone"}]

\* part_001:166-175, on the working directory, a directory and a missing path.
PathExist(path) == path # "gone"

\* part_001:137-165: the empty path cannot be read or created.
GetConfig(configPath, readable) ==
    [err |-> configPath = "" \/ ~readable]

UploadInit ==
    /\ SEOAtRest
    /\ CacheAtRest
    /\ SaveAtRest
    /\ flags = NoFlags
    /\ files \in Listings
    /\ upc = "idle"
    /\ fidx = 0
    /\ uploadedImages = <<>>
    /\ upRet = "none"
    /\ httpLog = <<>>

\* part_000:43-70: the command runs up to the test that guards the upload.
RunRoot(f, readable) ==
    /\ upc = "idle"
    /\ flags' = f
    /\ upc' = IF f.showVersion THEN "exit"
              ELSE IF GetConfig(f.configPath, readable).err THEN "exit"
              ELSE IF f.configPath # "" /\ PathExist(f.imagesPath) THEN "readdir"
              ELSE "autofill"
    /\ UNCHANGED <<files, fidx, uploadedImages, upRet, httpLog>>
    /\ UNCHANGED <<seoVars, cacheVars, saveVars>>

\* wooh.go:404-407
ReadDir(ok) ==
    /\ upc = "readdir"
    /\ IF ok
       THEN /\ upc' = "loop"
            /\ upRet' = upRet
       ELSE /\ upc' = "autofill"
            /\ upRet' = "readdir"
    /\ UNCHANGED <<flags, files, fidx, uploadedImages, httpLog>>
    /\ UNCHANGED <<seoVars, cacheVars, saveVars>>

\* wooh.go:409-410: an entry that does not pass the test is passed over.
SkipEntry ==
    /\ upc = "loop"
    /\ fidx < Len(files)
    /\ ~Uploadable(files[fidx + 1])
    /\ fidx' = fidx + 1
    /\ UNCHANGED <<flags, files, upc, uploadedImages, upRet, httpLog>>
    /\ UNCHANGED <<seoVars, cacheVars, saveVars>>

\* The replies to the media request: no reply, an error status, a body that
\* is not JSON, a JSON body without source_url and id of the expected types,
\* and a body with both.
MediaReplies ==
    {[kind |-> k, id |-> 0, url |-> ""] :
         k \in {"transport", "status", "garbage", "nofields"}}
        \cup {[kind |-> "ok", id |-> 1, url |-> "u"],
              [kind |-> "ok", id |-> 2, url |-> "v"]}

ProductReplies == {"transport", "status", "ok"}

\* Variant of PostMedia: a failed upload is passed over.
PostMedia_Continue(reply) ==
    /\ upc = "loop"
    /\ fidx < Len(files)
    /\ Uploadable(files[fidx + 1])
    /\ httpLog' = Append(httpLog,
           [kind |-> "media", file |-> files[fidx + 1].name,
            title |-> ProductName(files[fidx + 1].name), reply |-> reply])
    /\ IF reply.kind = "ok"
       THEN /\ uploadedImages' = <<[id |-> reply.id, src |-> reply.url]>>
            /\ upc' = "create"
            /\ fidx' = fidx
       ELSE /\ uploadedImages' = <<>>
            /\ upc' = "loop"
            /\ fidx' = fidx + 1
    /\ UNCHANGED <<flags, files, upRet>>
    /\ UNCHANGED <<seoVars, cacheVars, saveVars>>

\* wooh.go:411-445: the file is posted as media; a transport error, an error
\* status or a body that does not parse ends the pass with an error; the
\* type assertions of lines 437-438 panic on a body without the two fields.
PostMedia(reply) ==
    /\ upc = "loop"
    /\ fidx < Len(files)
    /\ Uploadable(files[fidx + 1])
    /\ httpLog' = Append(httpLog,
           [kind |-> "media", file |-> files[fidx + 1].name,
            title |-> ProductName(files[fidx + 1].name), reply |-> reply])
    /\ IF reply.kind \in {"transport", "status"}
       THEN /\ upRet' = "upload"
            /\ upc' = "autofill"
            /\ uploadedImages' = <<>>
       ELSE IF reply.kind = "garbage"
       THEN /\ upRet' = "parse"
            /\ upc' = "autofill"
            /\ uploadedImages' = <<>>
       ELSE IF reply.kind = "nofields"
       THEN /\ upRet' = upRet
            /\ upc' = "panic"
            /\ uploadedImages' = <<>>
       ELSE /\ upRet' = upRet
            /\ upc' = "create"
            /\ uploadedImages' = <<[id |-> reply.id, src |-> reply.url]>>
    /\ UNCHANGED <<flags, files, fidx>>
    /\ UNCHANGED <<seoVars, cacheVars, saveVars>>

\* wooh.go:447-487: the product is posted with the name of the file and the
\* uploaded image; a failure ends the pass with an error.
PostProduct(reply) ==
    /\ upc = "create"
    /\ httpLog' = Append(httpLog,
           [kind |-> "product", name |-> ProductName(files[fidx + 1].name),
            images |-> uploadedImages, reply |-> reply])
    /\ uploadedImages' = <<>>
    /\ IF reply = "ok"
       THEN /\ fidx' = fidx + 1
            /\ upc' = "loop"
            /\ upRet' = upRet
       ELSE /\ fidx' = fidx
            /\ upc' = "autofill"
            /\ upRet' = "create"
    /\ UNCHANGED <<flags, files>>
    /\ UNCHANGED <<seoVars, cacheVars, saveVars>>

\* wooh.go:409, 492: the listing is exhausted.
UploadEnd ==
    /\ upc = "loop"
    /\ fidx = Len(files)
    /\ upRet' = "nil"
    /\ upc' = "autofill"
    /\ UNCHANGED <<flags, files, fidx, uploadedImages, httpLog>>
    /\ UNCHANGED <<seoVars, cacheVars, saveVars>>

\* part_000:72-74: UpdateSEO is called when the flag is set; what the upload
\* returned was dropped at line 69.
StartSEO ==
    /\ upc = "autofill"
    /\ flags.autofill
    /\ run = 0
    /\ \E restart \in BOOLEAN, ask \in BOOLEAN, dirOK \in BOOLEAN :
           Enter(restart, ask, dirOK)

NoSEO ==
    /\ upc = "autofill"
    /\ ~flags.autofill
    /\ upc' = "exit"
    /\ UNCHANGED <<flags, files, fidx, uploadedImages, upRet, httpLog>>
    /\ UNCHANGED <<seoVars, cacheVars, saveVars>>

UploadNext ==
    \/ \E f \in CommandLines, readable \in BOOLEAN : RunRoot(f, readable)
    \/ \E ok \in BOOLEAN : ReadDir(ok)
    \/ SkipEntry
    \/ \E reply \in MediaReplies : PostMedia(reply)
    \/ \E reply \in ProductReplies : PostProduct(reply)
    \/ UploadEnd
    \/ StartSEO
    \/ NoSEO

UploadSpec == UploadInit /\ [][UploadNext]_vars

(***************************************************************************)
(* The tracker under concurrent use (part_001:32-58, wooh.go:393-396):      *)
(* goroutines of one process that each commit a product of their own, the   *)
(* way UpdateSEO does: tracker.UpdatedIDs[productID] = true, which takes no *)
(* lock, then tracker.save, which holds tracker.mu while it serializes the  *)
(* map and writes the file.  An unsynchronized write of a Go map that runs  *)
(* while the map is written or iterated is a data race: the runtime may     *)
(* stop the process with a fatal error, or the iteration may or may not     *)
(* come upon the key.                                                       *)
(***************************************************************************)
MaxThreads == 3   \* goroutines

Threads == 1..MaxThreads

seoRest == <<catalog, run, restartTracking, prompt, pc, products, idx, i,
             metaTitle, metaDescription, input, iterHist, runHist>>

SaveInit ==
    /\ SEOAtRest
    /\ CacheAtRest
    /\ UploadAtRest
    /\ tpc = [t \in Threads |-> "start"]
    /\ mu = 0
    /\ enc = [t \in Threads |-> [start |-> {}, data |-> {}]]
    /\ held = {{}}

\* The goroutines whose map write is under way.
Writing == {u \in Threads : tpc[u] = "marking"}

\* fatal error: concurrent map writes / concurrent map iteration and map write
Crash == tpc' = [u \in Threads |-> "crashed"]

\* wooh.go:393: the map write begins; the runtime may notice a write under way.
MarkBegin(t, detected) ==
    /\ tpc[t] = "start"
    /\ IF Writing # {} /\ detected
       THEN Crash
       ELSE tpc' = [tpc EXCEPT ![t] = "marking"]
    /\ UNCHANGED <<tracker, trackerFile, mu, enc, held>>
    /\ UNCHANGED <<seoRest, cacheVars, uploadVars>>

\* wooh.go:393: the key is in the map.
MarkEnd(t) ==
    /\ tpc[t] = "marking"
    /\ tracker' = tracker \cup {t}
    /\ held' = held \cup {tracker'}
    /\ tpc' = [tpc EXCEPT ![t] = "lock"]
    /\ UNCHANGED <<trackerFile, mu, enc>>
    /\ UNCHANGED <<seoRest, cacheVars, uploadVars>>

\* part_001:52: t.mu.Lock(), and json.Marshal begins to go through the map.
Lock(t) ==
    /\ tpc[t] = "lock"
    /\ mu = 0
    /\ mu' = t
    /\ enc' = [enc EXCEPT ![t] = [start |-> tracker, data |-> {}]]
    /\ tpc' = [tpc EXCEPT ![t] = "marshal"]
    /\ UNCHANGED <<tracker, trackerFile, held>>
    /\ UNCHANGED <<seoRest, cacheVars, uploadVars>>

\* part_001:55-56: json.Marshal(t) ends.  It has the keys the map held when
\* it began and any of those written since; the runtime may notice a write
\* under way.
Marshal(t, seen, detected) ==
    /\ tpc[t] = "marshal"
    /\ seen \subseteq (tracker \cup Writing) \ enc[t].start
    /\ IF Writing # {} /\ detected
       THEN /\ Crash
            /\ enc' = enc
       ELSE /\ enc' = [enc EXCEPT ![t].data = enc[t].start \cup seen]
            /\ tpc' = [tpc EXCEPT ![t] = "write"]
    /\ UNCHANGED <<tracker, trackerFile, mu, held>>
    /\ UNCHANGED <<seoRest, cacheVars, uploadVars>>

\* part_001:53, 57: os.WriteFile, then the deferred t.mu.Unlock().
WriteFile(t, w) ==
    /\ tpc[t] = "write"
    /\ trackerFile' = Save(enc[t].data, trackerFile, w)
    /\ mu' = 0
    /\ tpc' = [tpc EXCEPT ![t] = "done"]
    /\ UNCHANGED <<tracker, enc, held>>
    /\ UNCHANGED <<seoRest, cacheVars, uploadVars>>

SaveNext ==
    \/ \E t \in Threads, detected \in BOOLEAN : MarkBegin(t, detected)
    \/ \E t \in Threads : MarkEnd(t)
    \/ \E t \in Threads : Lock(t)
    \/ \E t \in Threads, seen \in SUBSET Threads, detected \in BOOLEAN :
           Marshal(t, seen, detected)
    \/ \E t \in Threads, w \in WriteResults : WriteFile(t, w)

SaveSpec == SaveInit /\ [][SaveNext]_vars

(***************************************************************************)
(* Properties.                                                              *)
(***************************************************************************)

\* The (title, description) pair an update request carries.
PairOf(req) == <<req.meta_data[1].value, req.meta_data[2].value>>

\* The iteration of the current product is over.
IterationOver == idx > 0 /\ pc = "loop"

\* The iteration of the current product is past the generation.
PastGeneration == idx > 0 /\ pc \in {"prompt", "put", "mark"}

\* C1: if all 10 generation attempts for a product fail with a generator
\* error, the product is skipped: no update request is issued for it and its
\* ID is not added to the tracker.
C1_AllErrorsSkipped ==
    (genCalls = retries /\ allErr) =>
        /\ sent = <<>>
        /\ CurID \notin tracker

\* C2: every update request issued carries a pair that a generator call for
\* the same product returned without error and within both limits.
C2_UpdateCarriesGeneratedPair ==
    \A k \in DOMAIN sent :
        /\ sent[k].id = CurID
        /\ PairOf(sent[k]) \in okPairs

\* C3: if all 10 generator calls for a product return without error a pair
\* over a limit, no update request is issued for the product, and the
\* iteration marks it neither in memory nor on disk.
C3_AllOverLengthLeftUnmarked ==
    (genCalls = retries /\ allOver) =>
        /\ ~PastGeneration
        /\ sent = <<>>
        /\ CurID \notin tracker
        /\ tracker = trackerAt
        /\ savesThis = 0
        /\ (~restartTracking => CurID \notin trackerFile.ids)

C3_Witness ==
    /\ genCalls = retries
    /\ allOver
    /\ pc = "loop"
    /\ idx < Len(products)

\* A line without its whitespace characters.
Stripped(line) == SelectSeq(line, LAMBDA c : c \notin Whitespace)

\* C4: if the first k calls (0 <= k < 10) return a title over its limit and
\* call k+1 returns a pair within the limits, the generator is called exactly
\* k+1 times, that pair is the one sent, and it is sent unless the operator
\* rejects it.
C4_RetryUntilValid ==
    (validAt # 0 /\ prefixOver) =>
        /\ validAt \in 1..retries
        /\ genCalls = validAt
        /\ Cardinality(okPairs) = 1
        /\ PastGeneration => <<metaTitle, metaDescription>> \in okPairs
        /\ \A k \in DOMAIN sent : PairOf(sent[k]) \in okPairs
        /\ (pc = "mark" \/ (IterationOver /\ Stripped(rawLine) # <<"n">>))
               => Len(sent) = 1

C4_Witness ==
    /\ validAt = retries
    /\ prefixOver
    /\ pc = "loop"
    /\ Len(sent) = 1
    /\ putLog[Len(putLog)].ok

\* C5: a product tracked when the loop reaches it is skipped: no generator
\* call, no update request, and the tracker is unchanged.
C5_TrackedSkipped ==
    (idx > 0 /\ CurID \in trackerAt) =>
        /\ pc \in {"loop", "done"}
        /\ genCalls = 0
        /\ sent = <<>>
        /\ tracker = trackerAt
        /\ savesThis = 0
        /\ \A k \in DOMAIN putLog : putLog[k].id # CurID

C5_Witness ==
    /\ idx = 2
    /\ CurID \in trackerAt
    /\ outcomes[1].res = "committed"

\* The identifiers a load of the tracker file would find.
FileIDs == IF trackerFile.st = "ok" THEN trackerFile.ids ELSE {}

\* C6: as long as the writes of the tracker file succeed, every product whose
\* update succeeded in this run is in the file before the loop goes on to the
\* next product, so that at any point at which the process may be terminated
\* at most one such product (the one in flight) is missing from the file.
C6_SavedBeforeNext ==
    ~writeFailed =>
        /\ Cardinality(putOK \ FileIDs) <= 1
        /\ pc \in {"loop", "clean", "gen", "check", "prompt", "put", "done"}
               => putOK \subseteq FileIDs
        /\ pc = "mark" => putOK \ FileIDs \subseteq {CurID}

C6_Witness ==
    /\ ~writeFailed
    /\ pc = "gen"
    /\ genCalls > 0
    /\ idx = 2
    /\ putOK = {products[1].ID}
    /\ restartTracking
    /\ trackerFile = FileOf(putOK)

\* C7: a run without the restart flag that follows a run in which a set C of
\* products was committed makes no generator call and no update request for
\* a product of C, and when it ends it has processed every catalog product
\* that the loaded tracker did not mark.
C7_Resumption ==
    (run >= 2 /\ ~restartTracking) =>
        /\ \A k \in DOMAIN putLog : putLog[k].id \notin prevSaved
        /\ (idx > 0 /\ CurID \in prevSaved) => genCalls = 0 /\ sent = <<>>
        /\ pc = "done" =>
               \A k \in DOMAIN products :
                   /\ k \in DOMAIN outcomes
                   /\ products[k].ID \notin loaded => outcomes[k].res # "skipped"

C7_Witness ==
    /\ run = 2
    /\ ~restartTracking
    /\ pc = "done"
    /\ Len(products) = 2
    /\ prevSaved = {products[1].ID}
    /\ outcomes[1].res = "skipped"
    /\ outcomes[2].res = "committed"

\* C8: an ID enters the tracker only after its update request returned
\* without transport error and with a non-error status; after a failed
\* update the product is not marked, the file is not written and the loop
\* goes on.
C8_MarkOnlyAfterSuccess ==
    /\ \A id \in tracker \ loaded :
           \E k \in DOMAIN putLog : putLog[k].id = id /\ putLog[k].ok
    /\ pc = "mark" => putLog # <<>> /\ putLog[Len(putLog)] = [id |-> CurID, ok |-> TRUE]
    /\ (idx > 0 /\ sent # <<>> /\ ~putLog[Len(putLog)].ok) =>
           /\ pc \in {"loop", "done"}
           /\ CurID \notin tracker
           /\ tracker = trackerAt
           /\ savesThis = 0

C8_Witness ==
    /\ pc = "clean"
    /\ idx = 2
    /\ putLog = << [id |-> products[1].ID, ok |-> FALSE] >>
    /\ tracker = {}

\* What one step taken in the confirmation loop may do.
PromptStep ==
    (pc = "prompt" /\ pc' # "killed") =>
        /\ Stripped(rawLine') = <<"y">> =>
               /\ pc' = "put"
               /\ UNCHANGED <<tracker, trackerFile, sent, putLog, outcomes,
                              metaTitle, metaDescription, idx>>
        /\ Stripped(rawLine') = <<"n">> =>
               /\ pc' = "loop"
               /\ sent' = <<>>
               /\ products[idx].ID \notin tracker'
               /\ UNCHANGED <<tracker, trackerFile, putLog, idx>>
        /\ Stripped(rawLine') \notin {<<"y">>, <<"n">>} =>
               /\ pc' = "prompt"
               /\ UNCHANGED <<tracker, trackerFile, sent, putLog, outcomes,
                              metaTitle, metaDescription, idx, products,
                              genCalls, savesThis>>

\* C9: in the confirmation loop a line that is "y" once its whitespace is
\* removed proceeds to the update request, a line that is "n" ends the
\* iteration with no request and no mark, and any other line (an empty one
\* and the end of the input included) changes nothing and repeats the prompt;
\* the loop is left in no other way while the process runs.
C9_ConfirmationLoop == [][PromptStep]_vars

C9_Witness ==
    /\ pc = "prompt"
    /\ rawLine = <<"y", " ", "n", "\n">>
    /\ input = <<"y", " ", "n">>

\* The ways in which the iteration of a product ends.
Terminal == {"skipped", "exhausted", "rejected", "failed", "committed"}

\* C10: no failure of generation, confirmation or remote update stops the
\* run: the products are visited in catalog order, each one reaches one of
\* the terminal states before the next one starts, a run that returns nil has
\* visited them all, and the run ends early only before the loop (tracker or
\* catalog not loaded) or in the conversion of a description.
C10_NoFailureStopsRun ==
    /\ \A k \in DOMAIN outcomes :
           /\ k \in DOMAIN products
           /\ outcomes[k].id = products[k].ID
           /\ outcomes[k].res \in Terminal
    /\ pc \in {"loop", "done"} => Len(outcomes) = idx
    /\ pc \in {"clean", "gen", "check", "prompt", "put", "mark"} =>
           idx > 0 /\ Len(outcomes) = idx - 1
    /\ pc = "done" => Len(outcomes) = Len(products)
    /\ pc = "failed" => idx = 0
    /\ pc = "fatal" => genCalls = 0 /\ rawLine = <<>> /\ sent = <<>>

C10_Witness ==
    /\ pc = "done"
    /\ Len(outcomes) = 2
    /\ outcomes[1].res = "failed"
    /\ outcomes[2].res = "exhausted"

\* C11: a failure of the conversion of one product's description does not
\* abort the run: once the loop is entered, the process stops by itself only
\* when every product of the catalog has reached a terminal state.
C11_ConversionFailureContinues ==
    (pc \in {"done", "failed", "fatal"} /\ idx > 0) =>
        Len(outcomes) = Len(products)

\* The number of update requests of this run for product id.
Requests(id) == Cardinality({k \in DOMAIN putLog : putLog[k].id = id})

\* C12: with the confirmation disabled, a run of UpdateSEO over any catalog
\* terminates, and it issues at most 10 generator calls and at most one
\* update request for each catalog entry.
C12_RunTerminates ==
    /\ [](/\ genCalls <= retries
          /\ Len(sent) <= 1
          /\ \A k \in DOMAIN catalog : Requests(catalog[k].ID) <= 1
          /\ Len(putLog) <= Len(catalog))
    /\ (run = 1) ~> (pc \in {"done", "failed", "fatal"})

C12_Witness ==
    /\ ~prompt
    /\ pc = "done"
    /\ Len(catalog) = 2
    /\ outcomes[1].res = "exhausted"
    /\ outcomes[2].res = "committed"

\* The identifiers of the catalog.
CatalogIDs == {catalog[k].ID : k \in DOMAIN catalog}

\* Every product of the run was either skipped as tracked or updated and
\* marked, and every write of the tracker file succeeded.
AllSucceeded ==
    /\ ~writeFailed
    /\ \A k \in DOMAIN outcomes : outcomes[k].res \in {"skipped", "committed"}
    /\ \A k \in DOMAIN putLog : putLog[k].ok

\* C13: a run without the restart flag that loaded the set T from the tracker
\* file and in which every generation, update and save succeeded has issued
\* exactly one update request for each catalog product outside T and none for
\* a product of T, and ends with the tracker in memory and the tracker file
\* both equal to T united with the catalog's identifiers.
C13_CompleteRun ==
    (pc = "done" /\ ~restartTracking /\ AllSucceeded) =>
        /\ \A id \in CatalogIDs : Requests(id) = IF id \in loaded THEN 0 ELSE 1
        /\ \A k \in DOMAIN putLog : putLog[k].id \in CatalogIDs \ loaded
        /\ tracker = loaded \cup CatalogIDs
        /\ trackerFile.st # "corrupt"
        /\ FileIDs = loaded \cup CatalogIDs

C13_Witness ==
    /\ pc = "done"
    /\ ~restartTracking
    /\ run = 1
    /\ AllSucceeded
    /\ Len(catalog) = 2
    /\ loaded = {catalog[1].ID}
    /\ Len(putLog) = 1
    /\ trackerFile = FileOf(CatalogIDs)

\* C14: a run with the restart flag starts from an empty tracker whatever the
\* tracker file holds, a file that does not parse included: the file is not
\* read, the run does not fail on it, and no catalog product is skipped as
\* already tracked.
C14_RestartStartsEmpty ==
    (restartTracking /\ pc \notin {"idle", "killed"}) =>
        /\ loaded = {}
        /\ pc = "failed" => products = <<>> /\ idx = 0 /\ tracker = {}
        /\ pc = "fetch" => tracker = {}
        /\ \A k \in DOMAIN outcomes : outcomes[k].res # "skipped"
        /\ pc = "done" => Len(outcomes) = Len(catalog)

C14_Witness ==
    /\ restartTracking
    /\ run = 1
    /\ pc = "done"
    /\ trackerFile = FileCorrupt
    /\ Len(catalog) = 2
    /\ outcomes[1].res = "failed"
    /\ outcomes[2].res = "exhausted"

\* C15: when a run with the restart flag has finished, whether or not it
\* committed a product, the tracker file holds exactly the identifiers the
\* run committed (the writes succeeding), so that nothing marked before the
\* reset is skipped by a later run.
C15_ResetDiscardsFile ==
    (restartTracking /\ pc = "done" /\ ~writeFailed) =>
        /\ trackerFile.st # "corrupt"
        /\ FileIDs = saved

\* GetProducts has just read the cache: it returned from it, or is about to
\* issue its first listing request.
CacheConsulted ==
    /\ calls > 0
    /\ gp \in {"paging", "returned"}
    /\ requests = <<>>

\* C16: when SaveToCache has written a product list, the empty one included,
\* a load within max_age gives that list back unchanged and GetProducts
\* returns it from the cache.
C16_CacheRoundTrip ==
    (CacheConsulted /\ lastSave # <<>>
        /\ atCall.now - lastSave[1].at <= maxCacheAge) =>
        /\ atCall.fetched.err = "nil"
        /\ FromMaps(atCall.fetched.data.items) = lastSave[1].list
        /\ gp = "returned"
        /\ ret = [products |-> Slice(lastSave[1].list), err |-> "nil"]

\* The file GetProducts found at its call parses, and its age at the call.
ParsedAtCall == CacheConsulted /\ cacheFile.st = "ok"
AgeAtCall == atCall.now - cacheFile.last_update

\* C17: for a cache file that parses, FetchFromCache returns the stored
\* products if the age of the snapshot is at most max_age, the boundary
\* included, and returns nothing, without error, if it is greater; GetProducts
\* never returns a snapshot older than max_age.
C17_AgeLimit ==
    ParsedAtCall =>
        /\ atCall.fetched.err = "nil"
        /\ AgeAtCall <= maxCacheAge => atCall.fetched.data = cacheFile.products
        /\ AgeAtCall > maxCacheAge =>
               /\ atCall.fetched.data = NilSlice
               /\ gp = "paging"
        /\ ~atCall.fetched.data.nil <=>
               (AgeAtCall <= maxCacheAge /\ ~cacheFile.products.nil)
        /\ gp = "returned" => AgeAtCall <= maxCacheAge

C17_Witness ==
    /\ ParsedAtCall
    /\ lastSave # <<>>
    /\ Len(lastSave[1].list) > perPage
    /\ AgeAtCall = maxCacheAge
    /\ gp = "returned"
    /\ Len(ret.products.items) > perPage

\* C18: FetchFromCache returns nothing and no error when the cache file does
\* not exist, an error (and no data) on any other failure to read it, and an
\* error when its content does not parse, whatever time the file carries.
C18_LoadErrors ==
    CacheConsulted =>
        /\ cacheFile.st = "absent" =>
               atCall.fetched = [data |-> NilSlice, err |-> "nil"]
        /\ cacheFile.st = "unreadable" =>
               atCall.fetched = [data |-> NilSlice, err |-> "read"]
        /\ cacheFile.st = "corrupt" =>
               atCall.fetched = [data |-> NilSlice, err |-> "parse"]
        /\ atCall.fetched.err # "nil" => cacheFile.st \in {"unreadable", "corrupt"}

C18_Witness ==
    /\ CacheConsulted
    /\ cacheFile.st = "corrupt"
    /\ cacheFile.last_update = atCall.now
    /\ calls = 2
    /\ atCall.fetched.err = "parse"

\* The cache file has not been written since the call.
FileAsAtCall ==
    \/ gp \in {"paging", "saving"}
    \/ gp = "returned" /\ (requests = <<>> \/ ret.err # "nil")

\* The cache file parses and each of its entries has the shape of a product.
Snapshot ==
    /\ cacheFile.st = "ok"
    /\ \A k \in DOMAIN cacheFile.products.items :
           Convertible(cacheFile.products.items[k])

\* C19: when the cache file holds a parseable snapshot within max_age,
\* GetProducts returns the cached list and issues no listing request.
C19_HitWithoutRequest ==
    (calls > 0 /\ FileAsAtCall /\ Snapshot /\ AgeAtCall <= maxCacheAge) =>
        /\ requests = <<>>
        /\ gp = "returned" =>
               ret = [products |-> Slice(FromMaps(cacheFile.products.items)),
                      err |-> "nil"]

RECURSIVE Concat(_)
\* The received pages, one after the other.
Concat(rs) ==
    IF rs = <<>> THEN <<>>
    ELSE Concat(SubSeq(rs, 1, Len(rs) - 1)) \o Items(rs[Len(rs)])

\* C20: on a cache miss GetProducts requests the pages 1, 2, 3, ... in this
\* order, each with page size 100, and returns the received pages
\* concatenated in the order of the responses; that list is the one it
\* writes to the cache.
C20_PagedFetch ==
    /\ \A k \in DOMAIN requests : requests[k] = [page |-> k, per_page |-> perPage]
    /\ gp \in {"paging", "saving"} =>
           /\ Len(responses) = Len(requests)
           /\ allProducts = Concat(responses)
           /\ gp = "paging" => page = Len(requests) + 1
    /\ (gp = "returned" /\ requests # <<>> /\ ret.err = "nil") =>
           /\ Len(responses) = Len(requests)
           /\ ret.products = Slice(Concat(responses))
           /\ (lastSave # <<>> /\ lastSave[1].call = calls) =>
                  /\ lastSave[1].list = ret.products.items
                  /\ cacheFile.st = "ok"
                  /\ FromMaps(cacheFile.products.items) = ret.products.items

C20_Witness ==
    /\ gp = "returned"
    /\ Len(requests) = 3
    /\ ret.err = "nil"
    /\ Len(ret.products.items) = 2 * perPage + 2
    /\ ret.products.items[perPage + 1].ID = perPage + 1
    /\ lastSave # <<>>
    /\ lastSave[1].call = calls
    /\ Len(cacheFile.products.items) = 2 * perPage + 2

\* The listing of this call has ended with a page shorter than perPage.
FetchDone ==
    /\ requests # <<>>
    /\ Len(responses) = Len(requests)
    /\ gp \in {"saving", "returned"}

\* C21: the listing loop ends after the first page of fewer than 100 items
\* and only then: every page before the last has at least 100 items, after a
\* page of at least 100 items the next page is requested, and a catalog of N
\* products served 100 a page costs N \div 100 + 1 requests.
C21_PageCount ==
    /\ \A k \in DOMAIN responses :
           k < Len(responses) => responses[k].n >= perPage
    /\ (gp = "paging" /\ responses # <<>>) =>
           /\ responses[Len(responses)].n >= perPage
           /\ page = Len(responses) + 1
    /\ FetchDone =>
           /\ responses[Len(responses)].n < perPage
           /\ Len(requests) = (Len(Concat(responses)) \div perPage) + 1

C21_Witness ==
    /\ FetchDone
    /\ gp = "returned"
    /\ Len(ret.products.items) = perPage
    /\ Len(requests) = 2
    /\ responses[2].n = 0

\* A step of the listing loop in which a request is issued and no page is
\* received, and a step taken after GetProducts has returned an error.
FailedPageStep ==
    /\ (gp = "paging" /\ Len(requests') = Len(requests) + 1
            /\ responses' = responses) =>
           /\ gp' = "returned"
           /\ ret'.err \in {"transport", "status", "garbage"}
           /\ ret'.products = NilSlice
           /\ UNCHANGED <<cacheFile, lastSave>>
    /\ (gp = "returned" /\ ret.err \notin {"nil", "none"}) =>
           \/ UNCHANGED <<cacheFile, lastSave, requests, ret, gp>>
           \/ calls' = calls + 1

\* C22: when a page request fails (transport error, error status or a body
\* that does not parse) GetProducts returns an error and no products, issues
\* no further page request and leaves the cache file as it was.
C22_PageFailureAborts == [][FailedPageStep]_vars

C22_Witness ==
    /\ gp = "returned"
    /\ ret = [products |-> NilSlice, err |-> "garbage"]
    /\ Len(requests) = 2
    /\ Len(responses) = 1
    /\ cacheFile.st = "ok"
    /\ ~cacheFile.products.nil
    /\ lastSave = <<>>

\* GetProducts has returned after a listing that ended, and the cache file
\* was not written by this call.
CacheNotWritten ==
    /\ gp = "returned"
    /\ FetchDone
    /\ (lastSave = <<>> \/ lastSave[1].call # calls)

\* C23: a failure to write the cache file does not end the run and does not
\* change the result: GetProducts returns the whole fetched list, no error.
C23_WriteFailureSwallowed ==
    /\ gp = "saving" => allProducts = Concat(responses)
    /\ CacheNotWritten =>
           ret = [products |-> Slice(Concat(responses)), err |-> "nil"]

C23_Witness ==
    /\ CacheNotWritten
    /\ cacheFile.st = "corrupt"
    /\ Len(requests) = 2
    /\ Len(ret.products.items) = perPage + 1
    /\ ret.err = "nil"

\* The cache file was there at the call and could not be read or parsed.
LoadFailedAtCall ==
    /\ calls > 0
    /\ gp \in {"paging", "saving", "returned"}
    /\ atCall.fetched.err \in {"read", "parse"}

\* C30: a cache file that exists but cannot be read or parsed is a miss for
\* GetProducts, not a failure: the listing is requested, and when it succeeds
\* the fetched list is returned and written over the file.
C30_UnreadableCacheIsMiss ==
    LoadFailedAtCall =>
        /\ gp = "returned" => requests # <<>>
        /\ (gp = "returned" /\ ret.err # "nil") =>
               /\ ret.err \in {"transport", "status", "garbage"}
               /\ Len(responses) < Len(requests)
        /\ (gp = "returned" /\ FetchDone) =>
               /\ ret = [products |-> Slice(Concat(responses)), err |-> "nil"]
               /\ (lastSave # <<>> /\ lastSave[1].call = calls) =>
                      cacheFile = CacheFileOf(ProductMaps(ret.products.items),
                                              lastSave[1].at)

C30_Witness ==
    /\ LoadFailedAtCall
    /\ atCall.fetched.err = "read"
    /\ gp = "returned"
    /\ FetchDone
    /\ Len(ret.products.items) = 1
    /\ lastSave # <<>>
    /\ lastSave[1].call = calls
    /\ cacheFile.st = "ok"

\* UpdateSEO is entered without the restart flag and its directory is there.
LoadStep ==
    /\ pc \in Stopped
    /\ run' = run + 1
    /\ ~restartTracking'
    /\ pc' # "fatal"

\* Nothing of the run has been done: no catalog, no generator call, no
\* update request, no save.
NothingDone ==
    /\ products = <<>>
    /\ idx = 0
    /\ genCalls = 0
    /\ sent = <<>>
    /\ putLog = <<>>
    /\ outcomes = <<>>
    /\ putOK = {}
    /\ saved = {}
    /\ ~writeFailed

LoadOutcome ==
    /\ (LoadStep /\ trackerFile.st = "absent") =>
           /\ pc' = "fetch"
           /\ tracker' = {}
           /\ loaded' = {}
    /\ (LoadStep /\ trackerFile.st = "corrupt") =>
           /\ pc' = "failed"
           /\ NothingDone'
           /\ trackerFile' = trackerFile
    /\ (pc = "failed" /\ NothingDone /\ trackerFile.st = "corrupt"
           /\ ~restartTracking) =>
           run' = run + 1

\* C24: without the restart flag, an absent tracker file gives an empty
\* tracker and the run goes on to the catalog; a tracker file that does not
\* parse makes UpdateSEO return an error with no catalog fetched, no generator
\* call and no update request made, and the file as it was.
C24_LoadFailureStopsRun == [][LoadOutcome]_vars

C24_Witness ==
    /\ pc = "failed"
    /\ run = 2
    /\ ~restartTracking
    /\ trackerFile = FileCorrupt
    /\ NothingDone
    /\ Len(catalog) = 2
    /\ prevSaved = {1}

\* UpdateSEO has the catalog it goes on to process.
CatalogTaken == pc = "loop" /\ gp = "returned" /\ calls = 1

\* C28: a run with the reset flag starts from an empty tracker and does not
\* use the product cache: the catalog it processes was listed from the store
\* in this run.
C28_ResetRefetches ==
    (restartTracking /\ CatalogTaken) =>
        /\ loaded = {}
        /\ requests # <<>>
        /\ products = Concat(responses)

\* The entry is a file whose extension is one of the four of wooh.go:410.
IsImage(entry) ==
    /\ ~entry.dir
    /\ \E k \in DOMAIN ImageExts : Ext(entry.name) = ImageExts[k]

MediaPosted(name) ==
    \E k \in DOMAIN httpLog : httpLog[k].kind = "media" /\ httpLog[k].file = name

ProductPosted(name) ==
    \E k \in DOMAIN httpLog :
        httpLog[k].kind = "product" /\ httpLog[k].name = ProductName(name)

\* C25: the directory upload posts an entry, and creates a product for it, if
\* and only if the entry is a file whose extension is exactly .jpg, .jpeg,
\* .png or .gif: no other entry is ever posted, and a pass that ends without
\* error has posted every such file.
C25_UploadsExactlyImages ==
    /\ \A k \in DOMAIN files :
           (MediaPosted(files[k].name) \/ ProductPosted(files[k].name)) =>
               IsImage(files[k])
    /\ upRet = "nil" =>
           \A k \in DOMAIN files :
               IsImage(files[k]) =>
                   MediaPosted(files[k].name) /\ ProductPosted(files[k].name)

\* The reply to the request says that it failed.
Failure(req) ==
    IF req.kind = "media" THEN req.reply.kind \in {"transport", "status", "garbage"}
    ELSE req.reply # "ok"

PassFailed == upRet \in {"upload", "parse", "create"}

\* C26: the first failure of a media upload or of a product creation ends the
\* pass: it is the last request issued and UploadImageToWordPress has
\* returned an error; and a product is posted only right after the media
\* upload of the same file succeeded, with the id and the URL of its reply.
\* (A reply without the two fields stops the process, and the requests too.)
C26_UploadFailFast ==
    /\ \A k \in DOMAIN httpLog :
           Failure(httpLog[k]) =>
               /\ k = Len(httpLog)
               /\ PassFailed
               /\ upc \notin {"loop", "create"}
    /\ PassFailed => httpLog # <<>> /\ Failure(httpLog[Len(httpLog)])
    /\ \A k \in DOMAIN httpLog :
           (httpLog[k].kind = "media" /\ httpLog[k].reply.kind = "nofields") =>
               k = Len(httpLog) /\ upc = "panic"
    /\ \A k \in DOMAIN httpLog :
           httpLog[k].kind = "product" =>
               /\ k > 1
               /\ httpLog[k - 1].kind = "media"
               /\ httpLog[k - 1].reply.kind = "ok"
               /\ httpLog[k].name = ProductName(httpLog[k - 1].file)
               /\ httpLog[k].images =
                      <<[id |-> httpLog[k - 1].reply.id,
                         src |-> httpLog[k - 1].reply.url]>>
    /\ upc = "create" =>
           /\ httpLog # <<>>
           /\ httpLog[Len(httpLog)].kind = "media"
           /\ httpLog[Len(httpLog)].reply.kind = "ok"

C26_Witness ==
    /\ upRet = "create"
    /\ Len(httpLog) = 2
    /\ httpLog[2].images = <<[id |-> 2, src |-> "v"]>>
    /\ Len(files) = 2
    /\ fidx = 0
    /\ Uploadable(files[2])

\* The command line holds the autofill flag and nothing else.
OnlyAutofill == flags = [NoFlags EXCEPT !.autofill = TRUE]

\* C29: the upload and the SEO update are independent: run with the autofill
\* flag alone the tool issues no media and no product request, and UpdateSEO
\* is entered only once any upload pass is over.
C29_AutofillAloneUploadsNothing ==
    /\ (upc # "idle" /\ OnlyAutofill) => httpLog = <<>>
    /\ run > 0 => upc = "autofill"

\* The goroutines inside save, between Lock and Unlock.
InSave == {t \in Threads : tpc[t] \in {"marshal", "write"}}

\* C27: the tracker is safe under concurrent use within one process: at most
\* one save serializes and writes at a time, and no mark runs while a save
\* serializes the map, so that every file saved is a set the tracker held.
C27_SaveIsSafe ==
    /\ Cardinality(InSave) <= 1
    /\ InSave # {} => mu \in InSave
    /\ \A t \in Threads : tpc[t] = "marshal" => Writing = {}
    /\ \A t \in Threads : tpc[t] = "write" => enc[t].data \in held
    /\ trackerFile.st = "ok" => trackerFile.ids \in held

====
